---------------------------- MODULE Spec2Model ----------------------------
(***************************************************************************)
(* Model of the audio-to-note job pipeline of src/lib/queue.ts:            *)
(* ProcessingQueue.addItem, processNext, processItem and the timers they   *)
(* arm.  One action is one run of JavaScript code between two suspension   *)
(* points (an await or a setTimeout callback): the host runtime runs such  *)
(* a stretch to completion before anything else is scheduled.              *)
(*                                                                         *)
(* Jobs are identified by their index in the queue array, which is their   *)
(* arrival order (addItem pushes, nothing ever removes).  Every external   *)
(* call (transcoder, settings lookup, transcription, summarization, file   *)
(* and notes-store writes) resolves or rejects as the environment chooses; *)
(* MaxFaults bounds the number of rejections explored in one run.          *)
(***************************************************************************)
EXTENDS Integers, Sequences, FiniteSets, TLC

\* ------------------------------------------------------------------ bounds
\* Number of addItem calls explored.
MaxJobs == 2

\* Number of external calls, over all jobs, that are made to fail.
MaxFaults == 3

\* The same two bounds for the runs that need several jobs waiting in the
\* queue at once: more addItem calls, fewer failing calls.
WideJobs == 3
WideFaults == 1

\* The same two bounds for the runs in which a poller calls getProgress.
PollJobs == 2
PollFaults == 1

\* The same two bounds for the runs with the upload page's poll loop.
PageJobs == 2
PageFaults == 1

\* The same two bounds for the runs under the fairness conditions.
FairJobs == 2
FairFaults == 1

\* Percentages the transcoder's progress callback reports.
Percents == {0, 50, 100}

\* ----------------------------------------------------- program constants
\* Retry caps of processItem.
MaxStepRetries == 3
MaxFullRetries == 1

\* Error messages processItem stores in item.error.  A raw error thrown by
\* an external call is the token of that call.
MsgConvert == "Unsupported audio format or corrupted file. Please try a different audio file."
MsgSttPrefix == "Speech-to-text failed after 3 attempts: "
MsgLlmPrefix == "AI summarization failed after 3 attempts: "
RawSettings == "Global API settings not found. Please ask an administrator to configure API settings."
RawStt == "stt error"
RawLlm == "llm error"
RawSave == "saveFile error"
RawDb == "updateOne error"
RawDelete == "unlink error"
NoError == "undefined"

\* A file that was never written.
Absent == <<"absent">>

\* No call of getProgress has returned yet.
NoAnswer == [queueProgress |-> [num |-> 0, den |-> 1], processProgress |-> 0,
             status |-> "no call yet"]

VARIABLES
    queue,        \* ProcessingQueue.queue: sequence of QueueItem records
    processing,   \* ProcessingQueue.processing
    nextPc,       \* position of the processNext chain: idle, awaiting, timer
    nextItem,     \* the item the processNext chain picked last (0: none)
    pc,           \* per job: position of its processItem invocation, or
                  \* "timer" (retry setTimeout pending), or "none"
    calls,        \* per job: the external calls made so far with outcomes
    saved,        \* per job: the writes that succeeded in this invocation
    srcExists,    \* per job: the file at item.originalPath exists
    noteStatus,   \* per job: status field of the notes-store record
    faults,       \* number of external calls that may still be made to fail
    locals,       \* per job: processItem's locals transcription and summary
    files,        \* per job: content of the note document (output.md) and
                  \* of its sibling transcript (output.txt)
    answer,       \* what getProgress returned to the poller's last call
    adds,         \* number of addItem calls still to come
    pollPc        \* per job: position of the upload page's pollProgress loop

vars == <<queue, processing, nextPc, nextItem, pc, calls, faults, saved, srcExists, noteStatus, locals, files, answer, adds, pollPc>>

\* The indices a job can have in any of the runs: the per-job variables
\* are functions on them.
Jobs ==
    LET counts == {MaxJobs, WideJobs, PollJobs, PageJobs, FairJobs}
    IN 1..(CHOOSE n \in counts : \A m \in counts : m <= n)

\* ------------------------------------------------------------- addItem
\* The record addItem pushes (lines 22-30).
NewItem ==
    [status |-> "queued", progress |-> 0, error |-> NoError,
     sttRetries |-> 0, llmRetries |-> 0, fullRetries |-> 0,
     currentStep |-> "queued"]

\* FirstQueued taking the first item that is queued or failed (a failed job
\* is submitted again).
FirstUnfinished(q) ==
    IF \E i \in 1..Len(q) : q[i].status \in {"queued", "error"}
    THEN CHOOSE i \in 1..Len(q) :
             /\ q[i].status \in {"queued", "error"}
             /\ \A k \in 1..(i - 1) : q[k].status \notin {"queued", "error"}
    ELSE 0

\* FirstQueued taking the queued item added last (findLast for find).
LastQueued(q) ==
    IF \E i \in 1..Len(q) : q[i].status = "queued"
    THEN CHOOSE i \in 1..Len(q) :
             /\ q[i].status = "queued"
             /\ \A k \in (i + 1)..Len(q) : q[k].status # "queued"
    ELSE 0

\* this.queue.find(item => item.status === 'queued'): index of the first
\* queued item, 0 when there is none.
FirstQueued(q) ==
    IF \E i \in 1..Len(q) : q[i].status = "queued"
    THEN CHOOSE i \in 1..Len(q) :
             /\ q[i].status = "queued"
             /\ \A k \in 1..(i - 1) : q[k].status # "queued"
    ELSE 0

\* The synchronous head of processItem, up to the first await (lines 68-72).
EnterItem(q, i) ==
    [q EXCEPT ![i].status = "processing", ![i].progress = 5]

\* ProcessNext returning without clearing this.processing when nothing is
\* queued.
ProcessNextKeepsFlag(q) ==
    LET n == FirstQueued(q) IN
    IF n = 0
    THEN /\ processing' = processing
         /\ nextPc' = "idle"
         /\ queue' = q
         /\ UNCHANGED <<nextItem, pc, saved>>
    ELSE /\ processing' = TRUE
         /\ nextPc' = "awaiting"
         /\ nextItem' = n
         /\ queue' = EnterItem(q, n)
         /\ pc' = [pc EXCEPT ![n] = "imports"]
         /\ saved' = [saved EXCEPT ![n] = {}]

\* processNext run on queue value q, up to its await (lines 51-60); the
\* awaited processItem runs synchronously up to its own first await.
ProcessNext(q) ==
    LET n == FirstQueued(q) IN
    IF n = 0
    THEN /\ processing' = FALSE
         /\ nextPc' = "idle"
         /\ queue' = q
         /\ UNCHANGED <<nextItem, pc, saved>>
    ELSE /\ processing' = TRUE
         /\ nextPc' = "awaiting"
         /\ nextItem' = n
         /\ queue' = EnterItem(q, n)
         /\ pc' = [pc EXCEPT ![n] = "imports"]
         /\ saved' = [saved EXCEPT ![n] = {}]

\* AddItem calling processNext without testing this.processing.
AddItemAlwaysStarts ==
    /\ adds > 0
    /\ adds' = adds - 1
    /\ LET j == Len(queue) + 1
           q == Append(queue, NewItem)
       IN /\ srcExists' = [srcExists EXCEPT ![j] = TRUE]
          /\ noteStatus' = [noteStatus EXCEPT ![j] = "processing"]
          /\ ProcessNext(q)
    /\ UNCHANGED <<calls, faults>>
    /\ UNCHANGED <<locals, files>>
    /\ UNCHANGED <<answer, pollPc>>

\* addItem (lines 21-35).  The uploader has stored the source file and
\* inserted the note record with status 'processing' before the call.
AddItem ==
    /\ adds > 0
    /\ adds' = adds - 1
    /\ LET j == Len(queue) + 1
           q == Append(queue, NewItem)
       IN /\ srcExists' = [srcExists EXCEPT ![j] = TRUE]
          /\ noteStatus' = [noteStatus EXCEPT ![j] = "processing"]
          /\ IF ~processing
             THEN ProcessNext(q)
             ELSE /\ queue' = q
                  /\ UNCHANGED <<processing, nextPc, nextItem, pc, saved>>
    /\ UNCHANGED <<calls, faults>>
    /\ UNCHANGED <<locals, files>>
    /\ UNCHANGED <<answer, pollPc>>

\* The callback of setTimeout(() => this.processNext(), 100) (line 63).
NextTimerFire ==
    /\ nextPc = "timer"
    /\ ProcessNext(queue)
    /\ UNCHANGED <<calls, faults, srcExists, noteStatus>>
    /\ UNCHANGED <<locals, files>>
    /\ UNCHANGED <<answer, adds, pollPc>>

\* ----------------------------------------------------------- processItem
\* One more external call may be made to fail.
CanFail == faults > 0

\* An external call of job j returned with outcome res.
Log(j, op, res) ==
    /\ calls' = [calls EXCEPT ![j] = Append(@, <<op, res>>)]
    /\ faults' = IF res = "fail" THEN faults - 1 ELSE faults

\* The locals as declared (lines 76-77): transcription is the empty
\* string, summary is unassigned.  Texts are tuples.
NoLocals == [transcription |-> <<>>, summary |-> <<"undefined">>]

\* The text the transcription client returns to the call of job j now in
\* flight, and the content field of the summary the summarization client
\* returns: a value of its own for every call.
SttText(j) == <<"transcript", j, Len(calls[j]) + 1>>
LlmContent(j) == <<"content", j, Len(calls[j]) + 1>>

\* processItem stays suspended, now at position p.
Continue(j, p) ==
    /\ pc' = [pc EXCEPT ![j] = p]
    /\ UNCHANGED <<processing, nextPc, nextItem>>

\* The processItem invocation of job j returns, leaving p ("timer" when it
\* armed a retry setTimeout, else "none").  When processNext awaits it, its
\* continuation arms the 100 ms timer (lines 60-63).
Returns(j, p) ==
    /\ pc' = [pc EXCEPT ![j] = p]
    /\ nextPc' = IF nextPc = "awaiting" /\ nextItem = j THEN "timer" ELSE nextPc
    /\ UNCHANGED <<processing, nextItem>>

\* The outer catch up to its await (lines 197-208).
Terminal(j, q, msg) ==
    /\ queue' = [q EXCEPT ![j].status = "error", ![j].error = msg]
    /\ Continue(j, "errWrite")

\* FullRetry resuming at the settings step instead of at conversion.
FullRetryFromSettings(j, q, msg) ==
    IF q[j].fullRetries < MaxFullRetries
    THEN /\ queue' = [q EXCEPT ![j].fullRetries = @ + 1,
                               ![j].currentStep = "settings",
                               ![j].sttRetries = 0,
                               ![j].llmRetries = 0]
         /\ Returns(j, "timer")
    ELSE Terminal(j, q, msg)

\* FullRetry with the cap test off by one (<= instead of <).
FullRetryOffByOne(j, q, msg) ==
    IF q[j].fullRetries <= MaxFullRetries
    THEN /\ queue' = [q EXCEPT ![j].fullRetries = @ + 1,
                               ![j].currentStep = "converting",
                               ![j].sttRetries = 0,
                               ![j].llmRetries = 0]
         /\ Returns(j, "timer")
    ELSE Terminal(j, q, msg)

\* The catch of the settings..saving block (lines 181-194).
FullRetry(j, q, msg) ==
    IF q[j].fullRetries < MaxFullRetries
    THEN /\ queue' = [q EXCEPT ![j].fullRetries = @ + 1,
                               ![j].currentStep = "converting",
                               ![j].sttRetries = 0,
                               ![j].llmRetries = 0]
         /\ Returns(j, "timer")
    ELSE Terminal(j, q, msg)

\* The dynamic imports resolved (lines 72-74); runs to the next await.
\* Step 1 is entered from 'queued' or 'converting' (line 80); when it is
\* skipped, step 2 is entered only from 'settings' (line 98); otherwise
\* control reaches the end of the function.
ImportsDone(j) ==
    /\ pc[j] = "imports"
    /\ IF queue[j].currentStep \in {"queued", "converting"}
       THEN /\ queue' = [queue EXCEPT ![j].currentStep = "converting",
                                      ![j].progress = 10]
            /\ Continue(j, "convert")
       ELSE IF queue[j].currentStep \in {"converting", "settings"}
       THEN /\ queue' = [queue EXCEPT ![j].currentStep = "settings",
                                      ![j].progress = 45]
            /\ Continue(j, "settings")
       ELSE /\ queue' = queue
            /\ Returns(j, "none")
    /\ UNCHANGED <<calls, faults, saved, srcExists, noteStatus>>
    /\ locals' = [locals EXCEPT ![j] = NoLocals]
    /\ UNCHANGED files
    /\ UNCHANGED <<answer, adds, pollPc>>

\* ConvertProgress without the offset of 10 (progress * 0.3 alone).
ConvertProgressNoOffset(j, p) ==
    /\ pc[j] = "convert"
    /\ queue' = [queue EXCEPT ![j].progress = (3 * p) \div 10]
    /\ UNCHANGED <<processing, nextPc, nextItem, pc, calls, faults, saved, srcExists, noteStatus>>
    /\ UNCHANGED <<locals, files>>
    /\ UNCHANGED <<answer, adds, pollPc>>

\* The transcoder's progress callback (lines 87-89).
ConvertProgress(j, p) ==
    /\ pc[j] = "convert"
    /\ queue' = [queue EXCEPT ![j].progress = 10 + (3 * p) \div 10]
    /\ UNCHANGED <<processing, nextPc, nextItem, pc, calls, faults, saved, srcExists, noteStatus>>
    /\ UNCHANGED <<locals, files>>
    /\ UNCHANGED <<answer, adds, pollPc>>

\* ConvertOk deleting the source file right after the conversion.
ConvertOkDeletesSource(j) ==
    /\ pc[j] = "convert"
    /\ Log(j, "convert", "ok")
    /\ queue' = [queue EXCEPT ![j].currentStep = "settings",
                              ![j].progress = 45]
    /\ Continue(j, "settings")
    /\ srcExists' = [srcExists EXCEPT ![j] = FALSE]
    /\ UNCHANGED <<saved, noteStatus>>
    /\ UNCHANGED <<locals, files>>
    /\ UNCHANGED <<answer, adds, pollPc>>

\* convertAudioToMp3 resolved (line 91), then step 2 up to its await
\* (lines 98-103): currentStep is 'converting' here.
ConvertOk(j) ==
    /\ pc[j] = "convert"
    /\ Log(j, "convert", "ok")
    /\ queue' = [queue EXCEPT ![j].currentStep = "settings",
                              ![j].progress = 45]
    /\ Continue(j, "settings")
    /\ UNCHANGED <<saved, srcExists, noteStatus>>
    /\ UNCHANGED <<locals, files>>
    /\ UNCHANGED <<answer, adds, pollPc>>

\* ConvertFail with the rethrow caught by the settings..saving handler.
ConvertFailRetried(j) ==
    /\ pc[j] = "convert"
    /\ CanFail
    /\ Log(j, "convert", "fail")
    /\ FullRetry(j, queue, MsgConvert)
    /\ UNCHANGED <<saved, srcExists, noteStatus>>
    /\ UNCHANGED <<locals, files>>
    /\ UNCHANGED <<answer, adds, pollPc>>

\* convertAudioToMp3 rejected (lines 92-94): the rethrown error is outside
\* the settings..saving block, so the outer catch takes it.
ConvertFail(j) ==
    /\ pc[j] = "convert"
    /\ CanFail
    /\ Log(j, "convert", "fail")
    /\ Terminal(j, queue, MsgConvert)
    /\ UNCHANGED <<saved, srcExists, noteStatus>>
    /\ UNCHANGED <<locals, files>>
    /\ UNCHANGED <<answer, adds, pollPc>>

\* The settings lookup returned a settings document (lines 102-116).
SettingsOk(j) ==
    /\ pc[j] = "settings"
    /\ Log(j, "settings", "ok")
    /\ queue' = [queue EXCEPT ![j].progress = 50,
                              ![j].currentStep = "transcribing"]
    /\ Continue(j, "transcribe")
    /\ UNCHANGED <<saved, srcExists, noteStatus>>
    /\ UNCHANGED <<locals, files>>
    /\ UNCHANGED <<answer, adds, pollPc>>

\* The settings lookup threw or found no document (lines 102-107).
SettingsFail(j) ==
    /\ pc[j] = "settings"
    /\ CanFail
    /\ Log(j, "settings", "fail")
    /\ FullRetry(j, queue, RawSettings)
    /\ UNCHANGED <<saved, srcExists, noteStatus>>
    /\ UNCHANGED <<locals, files>>
    /\ UNCHANGED <<answer, adds, pollPc>>

\* transcribeAudio resolved (line 117), then step 4 up to its await
\* (lines 132-135).
SttOk(j) ==
    /\ pc[j] = "transcribe"
    /\ Log(j, "stt", "ok")
    /\ queue' = [queue EXCEPT ![j].progress = 70,
                              ![j].currentStep = "summarizing"]
    /\ Continue(j, "summarize")
    /\ UNCHANGED <<saved, srcExists, noteStatus>>
    /\ locals' = [locals EXCEPT ![j].transcription = SttText(j)]
    /\ UNCHANGED files
    /\ UNCHANGED <<answer, adds, pollPc>>

\* transcribeAudio rejected (lines 118-128).
SttFail(j) ==
    /\ pc[j] = "transcribe"
    /\ CanFail
    /\ Log(j, "stt", "fail")
    /\ IF queue[j].sttRetries < MaxStepRetries
       THEN /\ queue' = [queue EXCEPT ![j].sttRetries = @ + 1]
            /\ Returns(j, "timer")
       ELSE FullRetry(j, queue, MsgSttPrefix \o RawStt)
    /\ UNCHANGED <<saved, srcExists, noteStatus>>
    /\ UNCHANGED <<locals, files>>
    /\ UNCHANGED <<answer, adds, pollPc>>

\* summarizeText resolved (line 136), then step 5 up to its await
\* (lines 151-153).
LlmOk(j) ==
    /\ pc[j] = "summarize"
    /\ Log(j, "llm", "ok")
    /\ queue' = [queue EXCEPT ![j].currentStep = "saving",
                              ![j].progress = 92]
    /\ Continue(j, "saveMd")
    /\ UNCHANGED <<saved, srcExists, noteStatus>>
    /\ locals' = [locals EXCEPT ![j].summary = LlmContent(j)]
    /\ UNCHANGED files
    /\ UNCHANGED <<answer, adds, pollPc>>

\* summarizeText rejected (lines 137-147).
LlmFail(j) ==
    /\ pc[j] = "summarize"
    /\ CanFail
    /\ Log(j, "llm", "fail")
    /\ IF queue[j].llmRetries < MaxStepRetries
       THEN /\ queue' = [queue EXCEPT ![j].llmRetries = @ + 1]
            /\ Returns(j, "timer")
       ELSE FullRetry(j, queue, MsgLlmPrefix \o RawLlm)
    /\ UNCHANGED <<saved, srcExists, noteStatus>>
    /\ UNCHANGED <<locals, files>>
    /\ UNCHANGED <<answer, adds, pollPc>>

\* saveMarkdownNote resolved (lines 153-159).
SaveMdOk(j) ==
    /\ pc[j] = "saveMd"
    /\ Log(j, "saveMd", "ok")
    /\ saved' = [saved EXCEPT ![j] = @ \cup {"md"}]
    /\ queue' = [queue EXCEPT ![j].progress = 95]
    /\ Continue(j, "dbUpdate")
    /\ UNCHANGED <<srcExists, noteStatus>>
    /\ files' = [files EXCEPT ![j].md = locals[j].summary]
    /\ UNCHANGED locals
    /\ UNCHANGED <<answer, adds, pollPc>>

\* saveMarkdownNote rejected.
SaveMdFail(j) ==
    /\ pc[j] = "saveMd"
    /\ CanFail
    /\ Log(j, "saveMd", "fail")
    /\ FullRetry(j, queue, RawSave)
    /\ UNCHANGED <<saved, srcExists, noteStatus>>
    /\ UNCHANGED <<locals, files>>
    /\ UNCHANGED <<answer, adds, pollPc>>

\* lines 177-179, and the return.
Complete(j) ==
    /\ queue' = [queue EXCEPT ![j].status = "completed",
                              ![j].progress = 100,
                              ![j].currentStep = "completed"]
    /\ Returns(j, "none")

\* The notes-store update to 'completed' resolved (lines 159-179); the
\* source file is then deleted when it exists, and unlinkSync may throw.
DbOk(j) ==
    /\ pc[j] = "dbUpdate"
    /\ noteStatus' = [noteStatus EXCEPT ![j] = "completed"]
    /\ saved' = [saved EXCEPT ![j] = @ \cup {"db"}]
    /\ IF srcExists[j]
       THEN \E del \in {"ok", "fail"} :
              /\ del = "fail" => CanFail
              /\ calls' = [calls EXCEPT ![j] = @ \o <<<<"db", "ok">>, <<"delete", del>>>>]
              /\ faults' = IF del = "fail" THEN faults - 1 ELSE faults
              /\ IF del = "ok"
                 THEN /\ srcExists' = [srcExists EXCEPT ![j] = FALSE]
                      /\ Complete(j)
                 ELSE /\ srcExists' = srcExists
                      /\ FullRetry(j, queue, RawDelete)
       ELSE /\ Log(j, "db", "ok")
            /\ srcExists' = srcExists
            /\ Complete(j)
    /\ UNCHANGED <<locals, files>>
    /\ UNCHANGED <<answer, adds, pollPc>>

\* The notes-store update to 'completed' rejected.
DbFail(j) ==
    /\ pc[j] = "dbUpdate"
    /\ CanFail
    /\ Log(j, "db", "fail")
    /\ FullRetry(j, queue, RawDb)
    /\ UNCHANGED <<saved, srcExists, noteStatus>>
    /\ UNCHANGED <<locals, files>>
    /\ UNCHANGED <<answer, adds, pollPc>>

\* ErrWrite without the inner try/catch: a rejected update rejects
\* processItem, and processNext never arms its timer.
ErrWriteUncaught(j, res) ==
    /\ pc[j] = "errWrite"
    /\ res = "fail" => CanFail
    /\ Log(j, "errWrite", res)
    /\ noteStatus' = IF res = "ok" THEN [noteStatus EXCEPT ![j] = "error"]
                     ELSE noteStatus
    /\ queue' = queue
    /\ pc' = [pc EXCEPT ![j] = "none"]
    /\ nextPc' = IF nextPc = "awaiting" /\ nextItem = j
                 THEN (IF res = "ok" THEN "timer" ELSE "idle")
                 ELSE nextPc
    /\ UNCHANGED <<processing, nextItem>>
    /\ UNCHANGED <<saved, srcExists>>
    /\ UNCHANGED <<locals, files>>
    /\ UNCHANGED <<answer, adds, pollPc>>

\* The notes-store update to 'error' settled (lines 204-221); a rejection
\* is caught and logged.
ErrWrite(j, res) ==
    /\ pc[j] = "errWrite"
    /\ res = "fail" => CanFail
    /\ Log(j, "errWrite", res)
    /\ noteStatus' = IF res = "ok" THEN [noteStatus EXCEPT ![j] = "error"]
                     ELSE noteStatus
    /\ queue' = queue
    /\ Returns(j, "none")
    /\ UNCHANGED <<saved, srcExists>>
    /\ UNCHANGED <<locals, files>>
    /\ UNCHANGED <<answer, adds, pollPc>>

\* The callback of a retry setTimeout (lines 123, 142, 189) re-invokes
\* processItem.  Its delay is at least 2000 ms, so it cannot run while the
\* 100 ms timer armed right after the arming invocation returned is pending.
RetryTimerFire(j) ==
    /\ pc[j] = "timer"
    /\ ~(nextPc = "timer" /\ nextItem = j)
    /\ queue' = EnterItem(queue, j)
    /\ pc' = [pc EXCEPT ![j] = "imports"]
    /\ saved' = [saved EXCEPT ![j] = {}]
    /\ UNCHANGED <<processing, nextPc, nextItem, calls, faults, srcExists, noteStatus>>
    /\ UNCHANGED <<locals, files>>
    /\ UNCHANGED <<answer, adds, pollPc>>

\* The state after construction (lines 18-19), for a run of at most n
\* addItem calls in which at most f external calls fail.
InitFor(n, f) ==
    /\ queue = <<>>
    /\ processing = FALSE
    /\ nextPc = "idle"
    /\ nextItem = 0
    /\ pc = [j \in Jobs |-> "none"]
    /\ calls = [j \in Jobs |-> <<>>]
    /\ faults = f
    /\ saved = [j \in Jobs |-> {}]
    /\ srcExists = [j \in Jobs |-> FALSE]
    /\ noteStatus = [j \in Jobs |-> "absent"]
    /\ locals = [j \in Jobs |-> NoLocals]
    /\ files = [j \in Jobs |-> [md |-> Absent, txt |-> Absent]]
    /\ answer = NoAnswer
    /\ adds = n
    /\ pollPc = [j \in Jobs |-> "none"]

\* ------------------------------------------------------------ getProgress
\* Ids a poller may ask about: the jobs and 0, an id no job has.
Ids == {0} \cup Jobs

\* getItem (lines 37-39): the index of the item with this id, 0 for
\* undefined.  A job's id is its index.
GetItem(id) == IF id \in 1..Len(queue) THEN id ELSE 0

\* The indices of the queued items, in array order (lines 42, 48).
QueuedItems == SelectSeq([i \in 1..Len(queue) |-> i],
                         LAMBDA i : queue[i].status = "queued")

\* GetQueuePosition without the + 1 (a 0-based position).
GetQueuePositionZeroBased(id) ==
    IF \E k \in 1..Len(QueuedItems) : QueuedItems[k] = id
    THEN (CHOOSE k \in 1..Len(QueuedItems) : QueuedItems[k] = id) - 1
    ELSE -1

\* getQueuePosition (lines 41-45): findIndex + 1, so 0 when the id is not
\* among the queued items.
GetQueuePosition(id) ==
    IF \E k \in 1..Len(QueuedItems) : QueuedItems[k] = id
    THEN CHOOSE k \in 1..Len(QueuedItems) : QueuedItems[k] = id
    ELSE 0

\* GetQueueLength counting every item of the list (no filter).
GetQueueLengthCountsAll == Len(queue)

\* getQueueLength (lines 47-49).
GetQueueLength == Len(QueuedItems)

\* A number as the fraction num / den, den > 0: queueProgress is not an
\* integer in general.
Frac(num, den) == [num |-> num, den |-> den]
FracEq(a, b) == a.num * b.den = b.num * a.den
FracLess(a, b) == a.num * b.den < b.num * a.den

\* queueProgress of getProgress (lines 238-246).
QueueProgress(id) ==
    LET item == queue[GetItem(id)]
        queuePosition == GetQueuePosition(id)
        totalQueued == GetQueueLength
    IN IF item.status # "queued" THEN Frac(100, 1)
       ELSE IF totalQueued > 0
       THEN Frac((totalQueued - queuePosition + 1) * 100, totalQueued)
       ELSE Frac(0, 1)

\* retryInfo of getProgress (lines 257-265).
RetryInfo(item) ==
    IF item.currentStep = "transcribing" /\ item.sttRetries > 0
    THEN " (Retry " \o ToString(item.sttRetries) \o "/3)"
    ELSE IF item.currentStep = "summarizing" /\ item.llmRetries > 0
    THEN " (Retry " \o ToString(item.llmRetries) \o "/3)"
    ELSE IF item.fullRetries > 0
    THEN " (Retry " \o ToString(item.fullRetries) \o "/1)"
    ELSE ""

\* The phase getProgress names for a processing item (lines 267-281);
\* progress is a whole number here, so Math.round leaves it.
PhaseText(progress) ==
    IF progress < 10 THEN "Starting processing..."
    ELSE IF progress < 40 THEN "Converting audio to MP3..."
    ELSE IF progress < 50 THEN "Loading API settings..."
    ELSE IF progress < 70 THEN "Transcribing audio to text..."
    ELSE IF progress < 90 THEN "Generating AI summary..."
    ELSE IF progress < 100 THEN "Saving markdown file..."
    ELSE "Finalizing..."

\* detailedStatus of getProgress (lines 248-284).
DetailedStatus(item) ==
    IF item.status = "error" THEN "Error: " \o item.error
    ELSE IF item.status = "queued" THEN "Waiting in queue..."
    ELSE IF item.status = "completed" THEN "Complete"
    ELSE IF item.status = "processing"
    THEN PhaseText(item.progress) \o RetryInfo(item)
             \o " (" \o ToString(item.progress) \o "%)"
    ELSE item.status

\* getProgress (lines 224-291).
GetProgress(id) ==
    IF GetItem(id) = 0
    THEN [queueProgress |-> Frac(0, 1), processProgress |-> 0,
          status |-> "not found"]
    ELSE [queueProgress |-> QueueProgress(id),
          processProgress |-> queue[GetItem(id)].progress,
          status |-> DetailedStatus(queue[GetItem(id)])]

\* GetProgressCall with an assignment for the comparison of line 242
\* (item.status = 'queued').
GetProgressCallAssigns(id) ==
    /\ answer' = GetProgress(id)
    /\ queue' = IF GetItem(id) = 0 THEN queue
                ELSE [queue EXCEPT ![id].status = "queued"]
    /\ UNCHANGED <<processing, nextPc, nextItem, pc, calls, faults,
                   saved, srcExists, noteStatus, locals, files, adds,
                   pollPc>>

\* A poller calls getProgress(id) and keeps the result.
GetProgressCall(id) ==
    /\ answer' = GetProgress(id)
    /\ UNCHANGED <<queue, processing, nextPc, nextItem, pc, calls, faults,
                   saved, srcExists, noteStatus, locals, files, adds,
                   pollPc>>

Init == InitFor(MaxJobs, MaxFaults)

InitWide == InitFor(WideJobs, WideFaults)

Next ==
    \/ AddItem
    \/ NextTimerFire
    \/ \E j \in Jobs : ImportsDone(j)
    \/ \E j \in Jobs, p \in Percents : ConvertProgress(j, p)
    \/ \E j \in Jobs : ConvertOk(j)
    \/ \E j \in Jobs : ConvertFail(j)
    \/ \E j \in Jobs : SettingsOk(j)
    \/ \E j \in Jobs : SettingsFail(j)
    \/ \E j \in Jobs : SttOk(j)
    \/ \E j \in Jobs : SttFail(j)
    \/ \E j \in Jobs : LlmOk(j)
    \/ \E j \in Jobs : LlmFail(j)
    \/ \E j \in Jobs : SaveMdOk(j)
    \/ \E j \in Jobs : SaveMdFail(j)
    \/ \E j \in Jobs : DbOk(j)
    \/ \E j \in Jobs : DbFail(j)
    \/ \E j \in Jobs, res \in {"ok", "fail"} : ErrWrite(j, res)
    \/ \E j \in Jobs : RetryTimerFire(j)

Spec == Init /\ [][Next]_vars

SpecWide == InitWide /\ [][Next]_vars

InitPoll == InitFor(PollJobs, PollFaults)

NextPoll ==
    \/ Next
    \/ \E id \in Ids : GetProgressCall(id)

SpecPoll == InitPoll /\ [][NextPoll]_vars

\* An await of the processItem invocation of job j settles: the dynamic
\* imports or an external call, with either outcome.
CallReturns(j) ==
    \/ ImportsDone(j)
    \/ ConvertOk(j) \/ ConvertFail(j)
    \/ SettingsOk(j) \/ SettingsFail(j)
    \/ SttOk(j) \/ SttFail(j)
    \/ LlmOk(j) \/ LlmFail(j)
    \/ SaveMdOk(j) \/ SaveMdFail(j)
    \/ DbOk(j) \/ DbFail(j)
    \/ \E res \in {"ok", "fail"} : ErrWrite(j, res)

\* External calls return and timers fire: an await that is pending
\* settles, and a setTimeout callback that is due runs.
Fairness ==
    /\ WF_vars(NextTimerFire)
    /\ \A j \in 1..FairJobs : WF_vars(CallReturns(j))
    /\ \A j \in 1..FairJobs : WF_vars(RetryTimerFire(j))

InitFair == InitFor(FairJobs, FairFaults)

SpecFair == InitFair /\ [][Next]_vars /\ Fairness

\* ------------------------------------------------------------ pollProgress
\* String.prototype.includes.
Includes(s, t) ==
    \E i \in 1..(Len(s) - Len(t) + 1) : SubSeq(s, i, i + Len(t) - 1) = t

\* The upload answered 2xx: the page calls pollProgress(noteId), which
\* sends its first request (page.tsx lines 88-91, 115-117).
StartPoll(j) ==
    /\ j \in 1..Len(queue)
    /\ pollPc[j] = "none"
    /\ pollPc' = [pollPc EXCEPT ![j] = "fetching"]
    /\ UNCHANGED <<queue, processing, nextPc, nextItem, pc, calls, faults,
                   saved, srcExists, noteStatus, locals, files, answer, adds>>

\* What pollProgress does with the body of a 2xx response (page.tsx lines
\* 121-136): "redirected" and "failed" end the loop, "waiting" is the
\* 1000 ms setTimeout pending.
AfterResponse(progress) ==
    IF progress.status = "completed" THEN "redirected"
    ELSE IF Includes(progress.status, "Error:") THEN "failed"
    ELSE "waiting"

\* The request of pollProgress settled (page.tsx lines 117-140).  The route
\* answers with getProgress of the job (route.ts lines 16-19); a response
\* that is not ok, or a rejected fetch, ends the loop without a word.
PollResponse(j, res) ==
    /\ pollPc[j] = "fetching"
    /\ res = "fail" => CanFail
    /\ faults' = IF res = "fail" THEN faults - 1 ELSE faults
    /\ IF res = "ok"
       THEN /\ answer' = GetProgress(j)
            /\ pollPc' = [pollPc EXCEPT ![j] = AfterResponse(GetProgress(j))]
       ELSE /\ answer' = answer
            /\ pollPc' = [pollPc EXCEPT ![j] = "dropped"]
    /\ UNCHANGED <<queue, processing, nextPc, nextItem, pc, calls,
                   saved, srcExists, noteStatus, locals, files, adds>>

\* The callback of setTimeout(() => pollProgress(noteId), 1000) (page.tsx
\* line 135) sends the next request.
PollTimerFire(j) ==
    /\ pollPc[j] = "waiting"
    /\ pollPc' = [pollPc EXCEPT ![j] = "fetching"]
    /\ UNCHANGED <<queue, processing, nextPc, nextItem, pc, calls, faults,
                   saved, srcExists, noteStatus, locals, files, answer, adds>>

InitPage == InitFor(PageJobs, PageFaults)

NextPage ==
    \/ Next
    \/ \E j \in Jobs : StartPoll(j)
    \/ \E j \in Jobs, res \in {"ok", "fail"} : PollResponse(j, res)
    \/ \E j \in Jobs : PollTimerFire(j)

SpecPage == InitPage /\ [][NextPage]_vars

\* ------------------------------------------------- observation helpers
\* The outcomes, in call order, of the calls of job j to operation op.
Outcomes(j, op) ==
    LET s == SelectSeq(calls[j], LAMBDA c : c[1] = op)
    IN [i \in 1..Len(s) |-> s[i][2]]

\* Every call of job j to an operation other than op has succeeded.
OthersOk(j, op) ==
    \A i \in 1..Len(calls[j]) : calls[j][i][1] # op => calls[j][i][2] = "ok"

\* s is a non-empty prefix of t: what a client scripted as t has answered
\* to the calls made so far.
Played(s, t) ==
    /\ Len(s) >= 1
    /\ Len(s) <= Len(t)
    /\ \A i \in 1..Len(s) : s[i] = t[i]

Added == 1..Len(queue)

\* A processItem invocation of job j has started and not yet returned.
InFlight(j) == pc[j] \notin {"none", "timer"}

\* Job j was started and has neither an invocation in flight nor a retry
\* timer pending: no code will ever touch it again.
Stopped(j) == queue[j].status # "queued" /\ pc[j] = "none"

IsTerminal(j) == queue[j].status \in {"completed", "error"}

\* ------------------------------------------------------------- claims
\* C1: in every reachable state at most one job in the queue has
\* status = processing.
C1_AtMostOneProcessing ==
    Cardinality({j \in Added : queue[j].status = "processing"}) <= 1

\* C2: processItem invocations for two different jobs are never in flight
\* at the same time.
C2_NoTwoJobsInFlight ==
    Cardinality({j \in Added : InFlight(j)}) <= 1

\* C3: every submitted job eventually reaches a terminal status.  A job
\* that was started and has no invocation in flight and no timer pending
\* never changes again, so it must be terminal by then.
C3_StoppedJobIsTerminal ==
    \A j \in Added : Stopped(j) => IsTerminal(j)

\* C4: with conversion, settings and every later call succeeding, a
\* transcription client that fails twice and then succeeds makes the job
\* end completed with sttRetries = 2 and fullRetries = 0.
C4_SttFailTwiceThenOk ==
    \A j \in Added :
        ( /\ Stopped(j)
          /\ OthersOk(j, "stt")
          /\ Played(Outcomes(j, "stt"), <<"fail", "fail", "ok">>) )
        => /\ queue[j].status = "completed"
           /\ queue[j].sttRetries = 2
           /\ queue[j].fullRetries = 0

\* C5: with conversion and settings succeeding, a transcription client that
\* fails four times in a row makes the job end in status = error with
\* sttRetries = 3 and an error message naming the speech-to-text step.
C5_SttFailFourTimes ==
    \A j \in Added :
        ( /\ Stopped(j)
          /\ OthersOk(j, "stt")
          /\ Played(Outcomes(j, "stt"), <<"fail", "fail", "fail", "fail">>) )
        => /\ queue[j].status = "error"
           /\ queue[j].sttRetries = 3
           /\ queue[j].error = MsgSttPrefix \o RawStt

\* C6: with conversion, settings, transcription and every later call
\* succeeding, a summarization client that fails once and then succeeds makes
\* the job end completed with llmRetries = 1, sttRetries = 0 and
\* fullRetries = 0; llmRetries grows only on a summarization failure and
\* sttRetries only on a transcription failure.
C6_LlmFailOnceThenOk ==
    /\ [](\A j \in Added :
            ( /\ Stopped(j)
              /\ OthersOk(j, "llm")
              /\ Played(Outcomes(j, "llm"), <<"fail", "ok">>) )
            => /\ queue[j].status = "completed"
               /\ queue[j].llmRetries = 1
               /\ queue[j].sttRetries = 0
               /\ queue[j].fullRetries = 0)
    /\ [][\A j \in Added :
            /\ queue'[j].llmRetries > queue[j].llmRetries
                 => calls'[j] = Append(calls[j], <<"llm", "fail">>)
            /\ queue'[j].sttRetries > queue[j].sttRetries
                 => calls'[j] = Append(calls[j], <<"stt", "fail">>)]_vars

\* C7: a transcoder failure during the first conversion of a job is not
\* retried: the job is in status = error with all three retry counters 0
\* and the generic message, and the transcoder is never invoked again.
C7_ConvertFailureIsTerminal ==
    \A j \in Added :
        ( /\ Outcomes(j, "convert") # <<>>
          /\ Outcomes(j, "convert")[1] = "fail" )
        => /\ queue[j].status = "error"
           /\ queue[j].sttRetries = 0
           /\ queue[j].llmRetries = 0
           /\ queue[j].fullRetries = 0
           /\ queue[j].error = MsgConvert
           /\ Len(Outcomes(j, "convert")) = 1
           /\ pc[j] \in {"errWrite", "none"}

C7_Witness ==
    \E j \in Added :
        /\ Outcomes(j, "convert") = <<"fail">>
        /\ pc[j] = "none"
        /\ queue[j].status = "error"

\* The settings lookup of job j failed on the first attempt and every other
\* call made so far has succeeded.
SettingsFailedOnce(j) ==
    /\ OthersOk(j, "settings")
    /\ Outcomes(j, "settings") = <<"fail", "ok">>

\* C8: when the settings lookup fails on the first attempt and every call
\* succeeds after the restart, the job has fullRetries = 1, sttRetries = 0,
\* llmRetries = 0, the transcoder was invoked exactly twice, no further
\* retry is pending and the job ends completed.
C8_SettingsFailureRestartsOnce ==
    \A j \in Added :
        SettingsFailedOnce(j)
        => /\ queue[j].fullRetries = 1
           /\ queue[j].sttRetries = 0
           /\ queue[j].llmRetries = 0
           /\ Len(Outcomes(j, "convert")) = 2
           /\ pc[j] \notin {"timer", "convert", "imports", "errWrite"}
           /\ pc[j] = "none" => queue[j].status = "completed"

C8_Witness ==
    \E j \in Added :
        /\ SettingsFailedOnce(j)
        /\ queue[j].status = "completed"
        /\ pc[j] = "none"

\* The step taken is a failure of the settings lookup, the markdown write
\* or the notes-store update of job j.
BlockFailure(j) ==
    \E op \in {"settings", "saveMd", "db"} :
        calls'[j] = Append(calls[j], <<op, "fail">>)

\* C9: a job undergoes at most one full-pipeline restart.  fullRetries
\* changes only from 0 to 1, together with currentStep = converting, both
\* step counters 0 and a retry timer armed; the first settings / saving /
\* persistence failure does this, the timer's callback re-enters processItem
\* which then invokes the transcoder, and a second such failure makes the job
\* terminal with status = error and no timer.
C9_AtMostOneFullRestart ==
    [][\A j \in Added :
         /\ queue'[j].fullRetries # queue[j].fullRetries
              => /\ queue[j].fullRetries = 0
                 /\ queue'[j].fullRetries = 1
                 /\ queue'[j].currentStep = "converting"
                 /\ queue'[j].sttRetries = 0
                 /\ queue'[j].llmRetries = 0
                 /\ queue'[j].status = "processing"
                 /\ pc'[j] = "timer"
         /\ (BlockFailure(j) /\ queue[j].fullRetries = 0)
              => queue'[j].fullRetries = 1
         /\ (BlockFailure(j) /\ queue[j].fullRetries = 1)
              => /\ queue'[j].status = "error"
                 /\ queue'[j].fullRetries = 1
                 /\ pc'[j] = "errWrite"
         /\ (pc[j] = "timer" /\ queue[j].currentStep = "converting" /\ pc'[j] # "timer")
              => pc'[j] = "imports"
         /\ (pc[j] = "imports" /\ queue[j].currentStep = "converting" /\ pc'[j] # "imports")
              => pc'[j] = "convert"
         /\ Len(Outcomes(j, "convert")) <= 2
      ]_vars

C9_Witness ==
    \E j \in Added :
        /\ queue[j].fullRetries = 1
        /\ queue[j].status = "error"
        /\ Len(Outcomes(j, "convert")) = 2
        /\ calls[j][Len(calls[j])] \in {<<"settings", "fail">>, <<"saveMd", "fail">>, <<"db", "fail">>}

C11_StartedInArrivalOrder ==
    \A a, b \in Added :
        (a < b /\ queue[b].status # "queued") => queue[a].status # "queued"

C11_Witness ==
    \E a, b \in Added :
        /\ a < b
        /\ nextItem = a
        /\ queue[a].status = "processing"
        /\ queue[b].status = "queued"
        /\ \E k \in Added : k < a /\ pc[k] = "timer"

\* C12: a job's progress decreases only when a full-pipeline restart
\* re-enters processItem; a step-level retry never lowers it.  (A transcoder
\* callback is taken to report non-decreasing percentages.)
C12_ProgressNeverDecreases ==
    [][\A j \in Added :
         queue'[j].progress < queue[j].progress
         => \/ pc[j] = "timer" /\ queue[j].currentStep = "converting"
            \/ pc[j] = "convert" /\ pc'[j] = "convert"
      ]_vars

\* C13: every job has sttRetries and llmRetries in 0..3 and fullRetries in
\* 0..1.
C13_RetryCountersBounded ==
    \A j \in Added :
        /\ queue[j].sttRetries \in 0..MaxStepRetries
        /\ queue[j].llmRetries \in 0..MaxStepRetries
        /\ queue[j].fullRetries \in 0..MaxFullRetries

C13_Witness ==
    \E j \in Added :
        /\ queue[j].fullRetries = 1
        /\ queue[j].sttRetries = 1

\* C14: the item is in status error with its message before the error is
\* written to the notes store; when the write settles, resolved or
\* rejected, the item is left as it is, no retry is armed, processNext's
\* continuation arms its timer, and that timer starts the next queued job.
C14_ErrorWriteIsBestEffort ==
    /\ [](\A j \in Added :
            noteStatus[j] = "error"
            => queue[j].status = "error" /\ queue[j].error # NoError)
    /\ [][\A j \in Added :
            (pc[j] = "errWrite" /\ pc'[j] # "errWrite")
            => /\ queue[j].status = "error"
               /\ queue[j].error # NoError
               /\ queue'[j] = queue[j]
               /\ pc'[j] = "none"
               /\ (nextPc = "awaiting" /\ nextItem = j) => nextPc' = "timer"
               /\ noteStatus'[j] \in {"error", noteStatus[j]}
       ]_vars
    /\ [][(nextPc = "timer" /\ nextPc' # "timer" /\ FirstQueued(queue) # 0)
            => queue'[FirstQueued(queue)].status = "processing"
       ]_vars

C14_Witness ==
    \E j, k \in Added :
        /\ j < k
        /\ calls[j] # <<>>
        /\ calls[j][Len(calls[j])] = <<"errWrite", "fail">>
        /\ queue[j].status = "error"
        /\ noteStatus[j] = "processing"
        /\ nextItem = k
        /\ queue[k].status = "processing"

\* The position in calls[j] of the last successful call to op, 0 if none.
LastOk(j, op) ==
    LET S == {i \in 1..Len(calls[j]) : calls[j][i] = <<op, "ok">>}
    IN IF S = {} THEN 0 ELSE CHOOSE i \in S : \A k \in S : k <= i

\* C15: for a completed job the note document holds the content the
\* summarization client returned, and the sibling transcript file holds the
\* text the transcription client returned.
C15_SavedContentRoundTrip ==
    \A j \in Added :
        queue[j].status = "completed"
        => /\ files[j].md = <<"content", j, LastOk(j, "llm")>>
           /\ files[j].txt = <<"transcript", j, LastOk(j, "stt")>>

\* The 1-based place of job j among the queued jobs in arrival order, and
\* the number of queued jobs, counted on the queue itself.
FifoPosition(j) == Cardinality({k \in 1..j : queue[k].status = "queued"})
QueuedCount == Cardinality({k \in Added : queue[k].status = "queued"})

\* C16: a queued job at FIFO position p of N queued jobs reports
\* queueProgress = ((N - p + 1) / N) * 100: 100 at position 1, 100 / N > 0
\* at position N, and strictly more at a smaller position.
C16_QueueProgressFormula ==
    \A j \in Added :
        queue[j].status = "queued"
        => LET N == QueuedCount
               p == FifoPosition(j)
               qp == GetProgress(j).queueProgress
           IN /\ N >= 1
              /\ FracEq(qp, Frac((N - p + 1) * 100, N))
              /\ p = 1 => FracEq(qp, Frac(100, 1))
              /\ p = N => FracEq(qp, Frac(100, N)) /\ FracLess(Frac(0, 1), qp)
              /\ \A k \in Added :
                    (k < j /\ queue[k].status = "queued")
                    => FracLess(qp, GetProgress(k).queueProgress)

C16_Witness ==
    \E a, b \in Added :
        /\ a < b
        /\ queue[a].status = "queued"
        /\ queue[b].status = "queued"
        /\ FracEq(GetProgress(b).queueProgress, Frac(50, 1))

\* Every external call of job j made so far has succeeded.
AllOk(j) == \A i \in 1..Len(calls[j]) : calls[j][i][2] = "ok"

\* The parts of C17 that do not depend on how J1 ends: J1 is processing
\* and reports queueProgress = 100 when its addItem returns; J2, while
\* queued, reports queueProgress = 100; with J1 completed and J2 queued the
\* 100 ms timer is pending, and its callback makes J2 processing.
C17_Scenario ==
    /\ [][(Len(queue) = 0 /\ Len(queue') = 1)
            => /\ queue'[1].status = "processing"
               /\ FracEq(GetProgress(1).queueProgress', Frac(100, 1))]_vars
    /\ [](Len(queue) >= 2 /\ queue[2].status = "queued"
            => FracEq(GetProgress(2).queueProgress, Frac(100, 1)))
    /\ []((Len(queue) >= 2 /\ queue[1].status = "completed"
                           /\ queue[2].status = "queued")
            => nextPc = "timer")
    /\ [][(Len(queue) >= 2 /\ queue[2].status = "queued"
                           /\ nextPc = "timer" /\ nextPc' # "timer")
            => queue'[2].status = "processing"]_vars

\* The step in which J2 becomes processing, from queued or right in its
\* addItem.
J2Starts ==
    /\ Len(queue') >= 2
    /\ queue'[2].status # "queued"
    /\ Len(queue) < 2 \/ queue[2].status = "queued"

C18_GetProgressIsPureRead ==
    [][answer' # answer
         => UNCHANGED <<queue, processing, nextPc, nextItem, pc, calls,
                        faults, saved, srcExists, noteStatus, locals, files,
                        adds>>
      ]_vars

C18_Witness ==
    \E j \in Added :
        /\ pc[j] = "timer"
        /\ queue[j].sttRetries = 1
        /\ answer = GetProgress(j)

C20_StepRetryResumesAtStep ==
    [][\A j \in Added :
         (pc[j] = "imports" /\ pc'[j] # "imports")
         => /\ queue[j].currentStep = "transcribing" => pc'[j] = "transcribe"
            /\ queue[j].currentStep = "summarizing" => pc'[j] = "summarize"
      ]_vars


\* C21: a job's status changes only from queued to processing, from
\* processing to completed and from processing to error; arming a retry
\* timer and its callback leave the status processing; a completed or
\* failed job's record never changes again.
C21_StatusTransitions ==
    [][\A j \in Added :
         /\ queue'[j].status # queue[j].status
              => <<queue[j].status, queue'[j].status>> \in
                     { <<"queued", "processing">>,
                       <<"processing", "completed">>,
                       <<"processing", "error">> }
         /\ (pc[j] = "timer") # (pc'[j] = "timer")
              => queue[j].status = "processing" /\ queue'[j].status = "processing"
         /\ IsTerminal(j) => queue'[j] = queue[j]
      ]_vars

C21_Witness ==
    \E a, b \in Added :
        /\ queue[a].status = "error"
        /\ queue[a].fullRetries = 1
        /\ pc[a] = "none"
        /\ queue[b].status = "completed"

\* The values of currentStep in pipeline order (the QueueItem type).
StepOrder ==
    <<"queued", "converting", "settings", "transcribing", "summarizing",
      "saving", "completed">>

StepIndex(step) == CHOOSE i \in 1..Len(StepOrder) : StepOrder[i] = step

\* C22: currentStep changes only to the next step of the pipeline order,
\* or back to converting when a full-pipeline restart is scheduled;
\* currentStep is completed exactly when status is completed.
C22_CurrentStepOrder ==
    /\ [](\A j \in Added :
            queue[j].currentStep = "completed" <=> queue[j].status = "completed")
    /\ [][\A j \in Added :
            queue'[j].currentStep # queue[j].currentStep
            => \/ StepIndex(queue'[j].currentStep)
                    = StepIndex(queue[j].currentStep) + 1
               \/ /\ queue'[j].currentStep = "converting"
                  /\ queue'[j].fullRetries = queue[j].fullRetries + 1
                  /\ pc'[j] = "timer"
       ]_vars

C22_Witness ==
    \E j \in Added :
        /\ queue[j].fullRetries = 1
        /\ queue[j].currentStep = "completed"
        /\ <<"saveMd", "fail">> \in {calls[j][i] : i \in 1..Len(calls[j])}


\* C23: when external calls return and timers fire, every job that is
\* queued is eventually started, whatever state the runner and the earlier
\* jobs are in when it is added.
C23_NoLostWakeup ==
    \A j \in 1..FairJobs :
        (j \in Added /\ queue[j].status = "queued")
        ~> (j \in Added /\ queue[j].status # "queued")

C23_Witness ==
    \E a, b \in Added :
        /\ a < b
        /\ pc[a] = "timer"
        /\ nextItem = b
        /\ queue[b].status = "processing"
        /\ queue[b].currentStep = "queued"


\* The progress band of each pipeline step.
Band ==
    [converting |-> 10..40, settings |-> 45..50, transcribing |-> 50..70,
     summarizing |-> 70..90, saving |-> 90..100]

NoRetries(j) ==
    /\ queue[j].sttRetries = 0
    /\ queue[j].llmRetries = 0
    /\ queue[j].fullRetries = 0

\* C24: while a job that has had no retry is processing in one of the
\* five pipeline steps, its progress lies in the band of its currentStep.
C24_ProgressInBandOfStep ==
    \A j \in Added :
        ( /\ queue[j].status = "processing"
          /\ NoRetries(j)
          /\ queue[j].currentStep \in DOMAIN Band )
        => queue[j].progress \in Band[queue[j].currentStep]

C24_Witness ==
    \E j \in Added :
        /\ queue[j].status = "processing"
        /\ NoRetries(j)
        /\ queue[j].currentStep = "converting"
        /\ queue[j].progress = 25


\* The phase the status text names for each pipeline step.
PhaseOf ==
    [converting |-> "Converting audio to MP3...",
     settings |-> "Loading API settings...",
     transcribing |-> "Transcribing audio to text...",
     summarizing |-> "Generating AI summary...",
     saving |-> "Saving markdown file..."]

\* The processItem invocation of job j is suspended in the external call
\* of a step, or its retry timer is pending.
InStepCallOrDelay(j) ==
    pc[j] \in {"convert", "settings", "transcribe", "summarize", "saveMd",
               "dbUpdate", "timer"}

\* C25: while a processing job is suspended in a step's external call or
\* in a retry delay, the status text of getProgress names the phase of the
\* job's currentStep.
C25_StatusTextNamesCurrentStep ==
    \A j \in Added :
        ( /\ queue[j].status = "processing"
          /\ InStepCallOrDelay(j)
          /\ queue[j].currentStep \in DOMAIN PhaseOf )
        => Includes(GetProgress(j).status, PhaseOf[queue[j].currentStep])


\* C26: a poll response that reports a completed job ends the loop in its
\* completion branch, and one that reports a failed job ends it in its
\* error branch: no further poll is scheduled for a terminal job.
C26_PollerStopsOnTerminal ==
    [][\A j \in Added :
         (pollPc[j] = "fetching" /\ pollPc'[j] \notin {"fetching", "dropped"})
         => /\ queue[j].status = "completed" => pollPc'[j] = "redirected"
            /\ queue[j].status = "error" => pollPc'[j] = "failed"
      ]_vars


\* C27 as stated: finished jobs stay in the list and are counted by
\* getQueueLength, which is therefore never less than the number of jobs
\* that have finished.
C27_QueueLengthCountsFinished ==
    /\ [][Len(queue') >= Len(queue)]_vars
    /\ [](GetQueueLength >= Cardinality({j \in Added : IsTerminal(j)}))

\* C27 amended: finished jobs stay in the list, but getQueueLength, and
\* the total of the queue-position formula, is the number of jobs with
\* status queued: a job that finishes leaves it as it is.
C27_QueueLengthCountsQueuedOnly ==
    /\ [][Len(queue') >= Len(queue)]_vars
    /\ [](GetQueueLength = QueuedCount)
    /\ [](GetQueueLength + Cardinality({j \in Added : queue[j].status # "queued"})
            = Len(queue))
    /\ [][\A j \in Added :
            (~IsTerminal(j) /\ IsTerminal(j)' /\ Len(queue') = Len(queue))
            => GetQueueLength' = GetQueueLength]_vars

C27_Witness ==
    \E a, b \in Added :
        /\ queue[a].status = "completed"
        /\ queue[b].status = "queued"
        /\ GetQueueLength = 1
        /\ Len(queue) >= 2


\* C28: every job whose status is processing has a processItem invocation
\* in flight or a retry timer pending.
C28_NoOrphanedProcessingJob ==
    \A j \in Added :
        queue[j].status = "processing" => (InFlight(j) \/ pc[j] = "timer")

\* C29: once the notes store holds status completed for a job, nothing
\* of the pipeline is pending for it (no invocation in flight, no retry
\* timer), and the stored status stays completed.
C29_NothingAfterStoreCompleted ==
    /\ [](\A j \in Added : noteStatus[j] = "completed" => pc[j] = "none")
    /\ [][\A j \in Added :
            noteStatus[j] = "completed"
            => /\ noteStatus'[j] = "completed"
               /\ calls'[j] = calls[j]]_vars

\* C30: a processItem invocation for a job starts either from that job's
\* retry timer, which it consumes, or from the runner when nothing exists
\* for the job; a processNext run starts from addItem only when no chain
\* exists and otherwise from the chain's own 100 ms timer; the processing
\* flag is true exactly while a chain exists.
C30_ExecutionsNeverOverlap ==
    /\ [](processing <=> nextPc # "idle")
    /\ [][\A j \in Jobs :
            (pc'[j] = "imports" /\ pc[j] # "imports")
            => \/ /\ pc[j] = "timer"
                  /\ UNCHANGED <<nextPc, nextItem>>
               \/ /\ pc[j] = "none"
                  /\ nextPc' = "awaiting"
                  /\ nextItem' = j
                  /\ j \in Added => queue[j].status = "queued"
       ]_vars
    /\ [][(nextPc' = "awaiting" /\ ~(nextPc = "awaiting" /\ nextItem' = nextItem))
            => \/ nextPc = "idle" /\ Len(queue') = Len(queue) + 1
               \/ nextPc = "timer" /\ Len(queue') = Len(queue)
       ]_vars

C30_Witness ==
    \E a, b \in Added :
        /\ a # b
        /\ pc[a] = "imports"
        /\ queue[a].fullRetries = 1
        /\ nextPc = "awaiting"
        /\ nextItem = b
        /\ InFlight(b)

=============================================================================
